---- MODULE Spec2Model ----
(***************************************************************************)
(* Model of the two maintenance scripts of the tasty-cooking repository:   *)
(*   update_headers.py       (the Header Rewriter)                         *)
(*   analyze_recipe_tags.py  (the Tag Auditor)                             *)
(*                                                                         *)
(* Text is modelled as a sequence of tokens.  For HTML content the tokens  *)
(* are "B" (the literal <body>), "D" (the old mobile-navigation div        *)
(* opening tag), "LF", "CR" and "x" (any other character).  "B" and "D"    *)
(* both start with '<' and contain no second '<', so their occurrences in  *)
(* a text never overlap and the tokenisation loses nothing the regular     *)
(* expression of update_headers.py can see.                                *)
(*                                                                         *)
(* src/analyze_recipe_tags.py:57 reads `f \!= "index.html"` in the stored  *)
(* file (a stray backslash also found in the shebang lines); it is read    *)
(* here as the comparison `f != "index.html"`.                             *)
(***************************************************************************)
EXTENDS Integers, Sequences, FiniteSets, TLC

VARIABLES
    \* ---- Header Rewriter (update_headers.py) ----
    fs,             \* the fixed directory: file name -> raw file content
    orig,           \* the directory as it was before the first run
    html_files,     \* the filtered list of line 21 (order is glob's: a set)
    processed,      \* files the loop of line 24 has gone through in this run
    written,        \* files opened for writing, over all runs
    pc,             \* "start", "loop", "done" or "off"
    run,            \* number of the current run of the script
    \* ---- Tag Auditor: extract_tags_from_recipe_page + line 78 ----
    page,           \* the parsed recipe page given to the function
    recipe_tags,    \* its return value
    formatted_data_tags,  \* line 78 applied to it
    epc,            \* "call", "format", "done" or "off"
    \* ---- Tag Auditor: main ----
    cwd,            \* names of the files of the working directory
    index_content,  \* index.html: the sequence of its anchors
    recipe_files,   \* the list of line 57
    idx,            \* number of files of recipe_files already looped over
    matches, mismatches, errors,
    report,         \* the blocks written to tag_analysis_report.txt
    apc             \* "start", "loop", "summary", "done" or "off"

rwVars == <<fs, orig, html_files, processed, written, pc, run>>
exVars == <<page, recipe_tags, formatted_data_tags, epc>>
auVars == <<cwd, index_content, recipe_files, idx, matches, mismatches,
            errors, report, apc>>
vars == <<rwVars, exVars, auVars>>

----------------------------------------------------------------------------
(* Bounds *)
MaxLen == 4          \* longest file content (tokens) of the one-file runs
MaxRuns == 2         \* how often the Header Rewriter is run in a row
MaxNodes == 3        \* sibling nodes of a recipe page
MaxTagLen == 3       \* characters of a tag badge's text
MaxTags == 2         \* tag badges of a tags section
MaxAnchors == 2      \* anchors of index.html

----------------------------------------------------------------------------
(* Generic sequence helpers *)
SeqsUpTo(S, n) == UNION {[1..k -> S] : k \in 0..n}

EndsWith(s, suf) ==
    /\ Len(s) >= Len(suf)
    /\ SubSeq(s, Len(s) - Len(suf) + 1, Len(s)) = suf

----------------------------------------------------------------------------
(***************************************************************************)
(*                Header Rewriter  (src/update_headers.py)                 *)
(***************************************************************************)

(* NEW_HEADER, lines 7-17: it starts with <body>, spans several lines and  *)
(* its div opening tag carries ` w-full" style=...` after `md:hidden`, so  *)
(* it is not the old tag "D".                                              *)
NEW_HEADER_withOldDiv == <<"B", "x", "D", "x">>
NEW_HEADER == <<"B", "LF", "x", "LF", "x">>

(* File names are token sequences; a path is the directory followed by the *)
(* name.  A name whose characters end in index.html (or in                 *)
(* sesame-green-beans.html) has that text as its last token.               *)
DirPrefix == "/Users/Jim/Documents/GitHub/tasty-cooking/"
IndexName == <<"index.html">>
SesameName == <<"sesame-green-beans.html">>
PastaName == <<"pasta", ".html">>
SpicySesameName == <<"spicy-", "sesame-green-beans.html">>
NotesName == <<"notes", ".txt">>
Names == {IndexName, SesameName, PastaName, SpicySesameName, NotesName}
PathOf(name) == <<DirPrefix>> \o name
Paths == {PathOf(n) : n \in Names}

(* glob.glob('<dir>/*.html'), line 20 *)
HtmlSuffixTokens == {"index.html", "sesame-green-beans.html", ".html"}
Glob(dir) == {f \in DOMAIN dir : f[Len(f)] \in HtmlSuffixTokens}

(* the filter of line 21 *)
Keep(f) == ~ (EndsWith(f, IndexName) \/ EndsWith(f, SesameName))

(* open(file_path, 'r').read(): text mode with universal newlines turns    *)
(* "\r\n" and a lone "\r" into "\n".                                       *)
RECURSIVE ReadText(_)
ReadText(raw) ==
    IF raw = <<>> THEN <<>>
    ELSE IF Head(raw) = "CR"
         THEN IF Len(raw) >= 2 /\ raw[2] = "LF"
              THEN <<"LF">> \o ReadText(Tail(Tail(raw)))
              ELSE <<"LF">> \o ReadText(Tail(raw))
         ELSE <<Head(raw)>> \o ReadText(Tail(raw))

(* open(file_path, 'w').write(): text mode writes "\n" as os.linesep; the  *)
(* directory of line 20 is a macOS home directory, where it is "\n".       *)
LineSep == <<"LF">>
RECURSIVE WriteText(_)
WriteText(text) ==
    IF text = <<>> THEN <<>>
    ELSE (IF Head(text) = "LF" THEN LineSep ELSE <<Head(text)>>)
         \o WriteText(Tail(text))

(* the `.` of the pattern of line 31 under flags=re.DOTALL (line 35) *)
DotMatches(t) == TRUE

(* `.*?<div ...>` started right after a <body> at position s: the end of   *)
(* the shortest match, 0 if there is none.                                 *)
MatchEnd(c, s) ==
    LET ends == {e \in (s+1)..Len(c) :
                    /\ c[e] = "D"
                    /\ \A k \in (s+1)..(e-1) : DotMatches(c[k])}
    IN IF ends = {} THEN 0
       ELSE CHOOSE e \in ends : \A e2 \in ends : e <= e2

(* re.search from position pos: the leftmost start of a match, 0 if none *)
MatchStart(c, pos) ==
    LET starts == {s \in pos..Len(c) : c[s] = "B" /\ MatchEnd(c, s) # 0}
    IN IF starts = {} THEN 0
       ELSE CHOOSE s \in starts : \A s2 \in starts : s <= s2

(* re.sub(pattern, NEW_HEADER, content, flags=re.DOTALL), line 35: every   *)
(* non-overlapping match, leftmost first, is replaced (count defaults to   *)
(* 0).  The template NEW_HEADER has no group reference and no escape that  *)
(* re expands, so each match is replaced by NEW_HEADER itself.             *)
RECURSIVE SubFrom(_, _)
SubFrom(c, pos) ==
    LET s == MatchStart(c, pos)
    IN IF s = 0 THEN SubSeq(c, pos, Len(c))
       ELSE SubSeq(c, pos, s - 1) \o NEW_HEADER \o SubFrom(c, MatchEnd(c, s) + 1)

ReSubFirstOnly(content) ==
    LET s == MatchStart(content, 1)
    IN IF s = 0 THEN content
       ELSE SubSeq(content, 1, s - 1) \o NEW_HEADER
            \o SubSeq(content, MatchEnd(content, s) + 1, Len(content))
ReSub(content) == SubFrom(content, 1)

(* Inputs: file contents *)
Tokens == {"B", "D", "x", "LF", "CR"}
Contents == SeqsUpTo(Tokens, MaxLen)
SelContents == {<<"x", "B", "x", "D", "x">>, <<"x", "CR", "LF">>}

(* The directory before the first run: either any subset of the named      *)
(* files with one of two contents each, or one recipe page with any        *)
(* content of up to MaxLen tokens.                                         *)
RwDirs ==
    (UNION {[S -> SelContents] : S \in SUBSET Paths})
    \cup [{PathOf(PastaName)} -> Contents]

RwIdle ==
    /\ fs = <<>> /\ orig = <<>> /\ html_files = {} /\ processed = {}
    /\ written = {} /\ pc = "off" /\ run = 0

RwInit ==
    /\ fs \in RwDirs
    /\ orig = fs
    /\ html_files = {}
    /\ processed = {}
    /\ written = {}
    /\ pc = "start"
    /\ run = 1

(* lines 20-21 *)
SelectFiles ==
    /\ pc = "start"
    /\ html_files' = {f \in Glob(fs) : Keep(f)}
    /\ processed' = {}
    /\ pc' = "loop"
    /\ UNCHANGED <<fs, orig, written, run>>

(* one iteration of the loop of lines 24-38 *)
ProcessFile(file_path) ==
    /\ pc = "loop"
    /\ file_path \in html_files \ processed
    /\ LET content == ReadText(fs[file_path])
           new_content == ReSub(content)
       IN fs' = [fs EXCEPT ![file_path] = WriteText(new_content)]
    /\ written' = written \cup {file_path}
    /\ processed' = processed \cup {file_path}
    /\ UNCHANGED <<orig, html_files, pc, run>>

(* line 40, after the loop *)
Complete ==
    /\ pc = "loop"
    /\ processed = html_files
    /\ pc' = "done"
    /\ UNCHANGED <<fs, orig, html_files, processed, written, run>>

(* the script is started again on the directory it left behind *)
RunAgain ==
    /\ pc = "done"
    /\ run < MaxRuns
    /\ run' = run + 1
    /\ pc' = "start"
    /\ UNCHANGED <<fs, orig, html_files, processed, written>>

----------------------------------------------------------------------------
(***************************************************************************)
(*      Tag Auditor  (src/analyze_recipe_tags.py): the two functions       *)
(***************************************************************************)

(* A parsed recipe page is the sequence of the sibling nodes under the     *)
(* document root, in document order.  A node is a div, another element     *)
(* ("p"), or a string (text or comment) that is a child of the root.       *)
(* marker says whether the node is, or has as a direct child, a string     *)
(* containing "Tags Section", and whether that string is a comment or a    *)
(* plain text node.  spans are the span elements below an element, in      *)
(* document order, each with its class set and its text.                   *)
(* readable = FALSE is a file whose open(), read() or parse raises.        *)

Chars == {"A", "b", " "}
Texts == SeqsUpTo(Chars, MaxTagLen)
BadgeClass == {"inline-flex", "px-3"}
Badge(text) == [cls |-> BadgeClass, text |-> text]
PlainSpan(text) == [cls |-> {}, text |-> text]

(* What a call of extract_tags_from_recipe_page yields: None, a list of    *)
(* tags, or an exception that leaves the function.                         *)
None == [raised |-> FALSE, isNone |-> TRUE, tags |-> <<>>]
Some(tags) == [raised |-> FALSE, isNone |-> FALSE, tags |-> tags]
Raised == [raised |-> TRUE, isNone |-> TRUE, tags |-> <<>>]

(* str.strip(), line 29 *)
RECURSIVE LStrip(_)
LStrip(t) == IF t # <<>> /\ Head(t) = " " THEN LStrip(Tail(t)) ELSE t
RECURSIVE RStrip(_)
RStrip(t) ==
    IF t # <<>> /\ t[Len(t)] = " " THEN RStrip(SubSeq(t, 1, Len(t) - 1)) ELSE t
Strip(t) == RStrip(LStrip(t))

(* class_=lambda c: c and 'inline-flex' in c, line 28 *)
ClassMatches(cls) == "inline-flex" \in cls

(* lines 27-31 *)
RECURSIVE CollectTags(_)
CollectTags(spans) ==
    IF spans = <<>> THEN <<>>
    ELSE LET span == Head(spans)
             tag_text == Strip(span.text)
         IN (IF ClassMatches(span.cls) /\ tag_text # <<>>
             THEN <<tag_text>> ELSE <<>>)
            \o CollectTags(Tail(spans))

(* Tag.find_next_sibling('div') of the element at position i: the first    *)
(* later sibling that is a div, whatever lies in between; 0 if none.       *)
RECURSIVE NextSiblingDivFrom(_, _)
NextSiblingDivFrom(nodes, j) ==
    IF j > Len(nodes) THEN 0
    ELSE IF nodes[j].kind = "div" THEN j
    ELSE NextSiblingDivFrom(nodes, j + 1)

AdjacentSiblingDiv(nodes, i) ==
    IF i + 1 <= Len(nodes) /\ nodes[i + 1].kind = "div" THEN i + 1 ELSE 0
FindNextSiblingDiv(nodes, i) == NextSiblingDivFrom(nodes, i + 1)

(* comment.find_parent().find_next_sibling('div'), line 19, for the marker *)
(* string at node i.  The parent of a string that is a child of the root   *)
(* is the document object, which has no siblings.                          *)
OwnNextSiblingDiv(nodes, i) == FindNextSiblingDiv(nodes, i)
ParentNextSiblingDiv(nodes, i) ==
    IF nodes[i].kind = "string" THEN 0 ELSE FindNextSiblingDiv(nodes, i)

(* the filter of soup.find_all(string=...), line 18: any string node       *)
(* (bs4's Comment is a subclass of NavigableString, itself a str) whose    *)
(* text contains "Tags Section".                                           *)
IsMarker(node) == node.marker # "none"

(* the loop of lines 17-21, from marker candidate i on: position of the    *)
(* tags section, 0 if none.  A bs4 Tag is always truthy (line 20).         *)
RECURSIVE FindTagsSection(_, _)
FindTagsSection(nodes, i) ==
    IF i > Len(nodes) THEN 0
    ELSE IF IsMarker(nodes[i]) /\ ParentNextSiblingDiv(nodes, i) # 0
         THEN ParentNextSiblingDiv(nodes, i)
         ELSE FindTagsSection(nodes, i + 1)

(* `except Exception`, line 34: the errors open(), read() and the parser   *)
(* raise (OSError, UnicodeDecodeError, ...) are all subclasses of          *)
(* Exception.                                                              *)
ExceptionClasses == {"OSError", "UnicodeDecodeError"}
HandlesNothing(exc) == FALSE
Handles(exc) == exc \in ExceptionClasses

(* extract_tags_from_recipe_page, lines 7-36 *)
extract_tags_from_recipe_page(p) ==
    IF ~ p.readable
    THEN IF Handles(p.exc) THEN None ELSE Raised
    ELSE LET tags_section == FindTagsSection(p.nodes, 1)
         IN IF tags_section = 0 THEN None
            ELSE Some(CollectTags(p.nodes[tags_section].spans))

(* line 78: ' '.join([tag.lower().replace(' ', '-') for tag in recipe_tags]) *)
Lower(ch) == IF ch = "A" THEN "a" ELSE ch
ReplaceSpace(ch) == IF ch = " " THEN "-" ELSE ch
FormatTagKeepCase(tag) == [k \in 1..Len(tag) |-> ReplaceSpace(tag[k])]
FormatTag(tag) == [k \in 1..Len(tag) |-> ReplaceSpace(Lower(tag[k]))]

RECURSIVE Join(_, _)
Join(sep, parts) ==
    IF parts = <<>> THEN <<>>
    ELSE IF Len(parts) = 1 THEN Head(parts)
    ELSE Head(parts) \o sep \o Join(sep, Tail(parts))

FormatDataTags(tags) == Join(<<" ">>, [k \in 1..Len(tags) |-> FormatTag(tags[k])])

(* Inputs: pages.  StructPages vary the structure, with a few span lists;  *)
(* TextPages have the usual structure (an element holding the marker       *)
(* comment, then the tags div) and vary the badges' raw texts.             *)
StructSpanLists ==
    { <<>>,
      <<Badge(<<"A">>)>>,
      <<PlainSpan(<<"A">>), Badge(<<" ">>), Badge(<<" ", "b", " ">>)>> }
StructNodes ==
    [kind : {"div"}, marker : {"none", "comment", "text"}, spans : StructSpanLists]
    \cup [kind : {"p", "string"}, marker : {"none", "comment", "text"}, spans : {<<>>}]
StructPages ==
    [readable : {TRUE}, exc : {""}, nodes : SeqsUpTo(StructNodes, MaxNodes)]

MarkerNode == [kind |-> "p", marker |-> "comment", spans |-> <<>>]
TagsDiv(spans) == [kind |-> "div", marker |-> "none", spans |-> spans]
PageOfNodes(nodes) == [readable |-> TRUE, exc |-> "", nodes |-> nodes]
PageOfSpans(spans) == PageOfNodes(<<MarkerNode, TagsDiv(spans)>>)
TextPages == {PageOfSpans(sp) : sp \in SeqsUpTo({Badge(t) : t \in Texts}, MaxTags)}

Unreadable(exc) == [readable |-> FALSE, exc |-> exc, nodes |-> <<>>]
UnreadablePages == {Unreadable(exc) : exc \in ExceptionClasses}
Pages == StructPages \cup TextPages \cup UnreadablePages

ExIdle ==
    /\ page = PageOfNodes(<<>>) /\ recipe_tags = None
    /\ formatted_data_tags = <<>> /\ epc = "off"

ExInit ==
    /\ page \in Pages
    /\ recipe_tags = None
    /\ formatted_data_tags = <<>>
    /\ epc = "call"

(* line 69 *)
Extract ==
    /\ epc = "call"
    /\ recipe_tags' = extract_tags_from_recipe_page(page)
    /\ epc' = IF recipe_tags'.raised THEN "crashed"
              ELSE IF recipe_tags'.isNone THEN "done" ELSE "format"
    /\ UNCHANGED <<page, formatted_data_tags>>

(* line 78 *)
Format ==
    /\ epc = "format"
    /\ formatted_data_tags' = FormatDataTags(recipe_tags.tags)
    /\ epc' = "done"
    /\ UNCHANGED <<page, recipe_tags>>

----------------------------------------------------------------------------
(***************************************************************************)
(*           Tag Auditor  (src/analyze_recipe_tags.py): main               *)
(***************************************************************************)

(* File names of the working directory, as token sequences. *)
IndexHtml == <<"index", ".html">>
PastaHtml == <<"pasta", ".html">>
SaladHtml == <<"salad", ".html">>
RecipeFileNames == {PastaHtml, SaladHtml}

(* glob.glob("*.html"), line 57 *)
GlobHtml(dir) == {f \in DOMAIN dir : f[Len(f)] = ".html"}

(* the filter of line 57 *)
IsRecipeFileAny(f) == TRUE
IsRecipeFile(f) == f # IndexHtml

(* recipe_file.replace('.html', ''), line 65 *)
RECURSIVE RemoveHtml(_)
RemoveHtml(f) ==
    IF f = <<>> THEN <<>>
    ELSE (IF Head(f) = ".html" THEN <<>> ELSE <<Head(f)>>) \o RemoveHtml(Tail(f))

(* index.html is a sequence of anchors; an anchor is the sequence of its   *)
(* attributes in source order.                                             *)
NoTags == [isNone |-> TRUE, value |-> <<>>]
TagsValue(v) == [isNone |-> FALSE, value |-> v]

(* within one anchor: href="<recipe_name>" followed, before the closing    *)
(* '>', by data-tags="..."; 0 or the position of the data-tags attribute.  *)
AnchorMatch(anchor, recipe_name) ==
    LET hits == {k \in 1..Len(anchor) :
                    /\ anchor[k].name = "data-tags"
                    /\ \E h \in 1..(k-1) : /\ anchor[h].name = "href"
                                           /\ anchor[h].value = recipe_name}
    IN IF hits = {} THEN 0 ELSE CHOOSE k \in hits : \A k2 \in hits : k2 <= k

(* extract_current_tags_from_index, lines 38-44: re.search returns the     *)
(* leftmost match.                                                         *)
RECURSIVE extract_current_tags_from_index(_, _)
extract_current_tags_from_index(index, recipe_name) ==
    IF index = <<>> THEN NoTags
    ELSE IF AnchorMatch(Head(index), recipe_name) # 0
         THEN TagsValue(Head(index)[AnchorMatch(Head(index), recipe_name)].value)
         ELSE extract_current_tags_from_index(Tail(index), recipe_name)

(* current_data_tags == formatted_data_tags, line 84: None equals no str *)
TagsEqualIgnoreCase(current, formatted) ==
    /\ ~ current.isNone
    /\ [k \in 1..Len(current.value) |-> Lower(current.value[k])] = formatted
TagsEqualNoneAsEmpty(current, formatted) == current.value = formatted
TagsEqual(current, formatted) == ~ current.isNone /\ current.value = formatted

(* Inputs *)
AuTags == {<<"A", " ", "b">>, <<"b">>}
TagPages == {PageOfSpans(sp) : sp \in SeqsUpTo({Badge(t) : t \in AuTags}, MaxTags)}
NoSectionPages ==
    { PageOfNodes(<<MarkerNode>>),
      PageOfNodes(<<[kind |-> "string", marker |-> "comment", spans |-> <<>>],
                    TagsDiv(<<Badge(<<"b">>)>>)>>) }
AuditPages == TagPages \cup NoSectionPages \cup {Unreadable("OSError")}

IndexVals ==
    { <<"a", "-", "b", " ", "b">>, <<"b", " ", "a", "-", "b">>,
      <<"A", "-", "b", " ", "b">> }
Href(f) == [name |-> "href", value |-> RemoveHtml(f)]
DataTags(v) == [name |-> "data-tags", value |-> v]
Anchors ==
    {<<Href(f), DataTags(v)>> : f \in RecipeFileNames, v \in IndexVals}
    \cup {<<DataTags(<<"b">>), Href(f)>> : f \in RecipeFileNames}
Indexes == SeqsUpTo(Anchors, MaxAnchors)

(* The working directory: index.html (itself a page without tags section)  *)
(* and any of the recipe files.                                            *)
IndexPage == PageOfNodes(<<>>)
Cwds ==
    UNION { {[f \in S \cup {IndexHtml} |-> IF f = IndexHtml THEN IndexPage ELSE g[f]] :
                g \in [S -> AuditPages]} : S \in SUBSET RecipeFileNames }

Orders(S) ==
    {o \in [1..Cardinality(S) -> S] : \A a, b \in 1..Cardinality(S) : o[a] = o[b] => a = b}

ErrorEntry(recipe_name) ==
    [recipe |-> recipe_name, status |-> "ERROR", tags |-> <<>>,
     current |-> NoTags, correct |-> <<>>]
Entry(recipe_name, status, tags, current, correct) ==
    [recipe |-> recipe_name, status |-> status, tags |-> tags,
     current |-> current, correct |-> correct]
NoSummary == [written |-> FALSE, total |-> 0, matches |-> 0, mismatches |-> 0, errors |-> 0]

AuIdle ==
    /\ cwd = <<>> /\ index_content = <<>> /\ recipe_files = <<>> /\ idx = 0
    /\ matches = 0 /\ mismatches = 0 /\ errors = 0
    /\ report = [found |-> 0, entries |-> <<>>, summary |-> NoSummary]
    /\ apc = "off"

AuInit ==
    /\ cwd \in Cwds
    /\ index_content \in Indexes
    /\ recipe_files = <<>>
    /\ idx = 0
    /\ matches = 0 /\ mismatches = 0 /\ errors = 0
    /\ report = [found |-> 0, entries |-> <<>>, summary |-> NoSummary]
    /\ apc = "start"

(* lines 48-62; glob returns the names in the directory's own order *)
Start ==
    /\ apc = "start"
    /\ recipe_files' \in Orders({f \in GlobHtml(cwd) : IsRecipeFile(f)})
    /\ report' = [report EXCEPT !.found = Len(recipe_files')]
    /\ matches' = 0 /\ mismatches' = 0 /\ errors' = 0
    /\ idx' = 0
    /\ apc' = "loop"
    /\ UNCHANGED <<cwd, index_content>>

(* one iteration of the loop of lines 64-95 *)
Analyze ==
    /\ apc = "loop"
    /\ idx < Len(recipe_files)
    /\ LET recipe_file == recipe_files[idx + 1]
           recipe_name == RemoveHtml(recipe_file)
           tags == extract_tags_from_recipe_page(cwd[recipe_file])
           formatted == FormatDataTags(tags.tags)
           current_data_tags == extract_current_tags_from_index(index_content, recipe_name)
       IN IF tags.raised
          THEN /\ apc' = "crashed"
               /\ UNCHANGED <<idx, matches, mismatches, errors, report>>
          ELSE /\ apc' = apc
               /\ idx' = idx + 1
               /\ IF tags.isNone
                  THEN /\ report' = [report EXCEPT !.entries =
                                        Append(@, ErrorEntry(recipe_name))]
                       /\ errors' = errors + 1
                       /\ UNCHANGED <<matches, mismatches>>
                  ELSE IF TagsEqual(current_data_tags, formatted)
                  THEN /\ matches' = matches + 1
                       /\ report' = [report EXCEPT !.entries =
                              Append(@, Entry(recipe_name, "MATCH", tags.tags,
                                              current_data_tags, formatted))]
                       /\ UNCHANGED <<mismatches, errors>>
                  ELSE /\ mismatches' = mismatches + 1
                       /\ report' = [report EXCEPT !.entries =
                              Append(@, Entry(recipe_name, "MISMATCH", tags.tags,
                                              current_data_tags, formatted))]
                       /\ UNCHANGED <<matches, errors>>
    /\ UNCHANGED <<cwd, index_content, recipe_files>>

(* lines 97-105 *)
Summary ==
    /\ apc = "loop"
    /\ idx = Len(recipe_files)
    /\ report' = [report EXCEPT !.summary =
                    [written |-> TRUE, total |-> Len(recipe_files),
                     matches |-> matches, mismatches |-> mismatches,
                     errors |-> errors]]
    /\ apc' = "done"
    /\ UNCHANGED <<cwd, index_content, recipe_files, idx, matches, mismatches, errors>>

----------------------------------------------------------------------------
(* Specifications *)

(* the Header Rewriter *)
InitRewriter == RwInit /\ ExIdle /\ AuIdle
NextRewriter ==
    \/ SelectFiles /\ UNCHANGED <<exVars, auVars>>
    \/ (\E file_path \in Paths : ProcessFile(file_path)) /\ UNCHANGED <<exVars, auVars>>
    \/ Complete /\ UNCHANGED <<exVars, auVars>>
    \/ RunAgain /\ UNCHANGED <<exVars, auVars>>
SpecRewriter == InitRewriter /\ [][NextRewriter]_vars

(* extract_tags_from_recipe_page and the formatting of line 78 *)
InitExtract == ExInit /\ RwIdle /\ AuIdle
NextExtract ==
    \/ Extract /\ UNCHANGED <<rwVars, auVars>>
    \/ Format /\ UNCHANGED <<rwVars, auVars>>
SpecExtract == InitExtract /\ [][NextExtract]_vars

(* the Tag Auditor's main pass *)
InitAudit == AuInit /\ RwIdle /\ ExIdle
NextAudit ==
    \/ Start /\ UNCHANGED <<rwVars, exVars>>
    \/ Analyze /\ UNCHANGED <<rwVars, exVars>>
    \/ Summary /\ UNCHANGED <<rwVars, exVars>>
SpecAudit == InitAudit /\ [][NextAudit]_vars

----------------------------------------------------------------------------
(***************************************************************************)
(*                     Properties: Header Rewriter                         *)
(***************************************************************************)

(* the step is the loop iteration for file f *)
ProcessStepOf(f) ==
    /\ pc = "loop"
    /\ f \in html_files \ processed
    /\ processed' = processed \cup {f}

(* the pattern, read off line 31: a <body> and, anywhere after it, the old *)
(* div opening tag                                                         *)
HasPattern(c) == \E s, e \in 1..Len(c) : s < e /\ c[s] = "B" /\ c[e] = "D"
FirstSpanStart(c) ==
    CHOOSE s \in 1..Len(c) :
        /\ c[s] = "B" /\ \E e \in (s+1)..Len(c) : c[e] = "D"
        /\ \A t \in 1..(s-1) : ~ (c[t] = "B" /\ \E e \in (t+1)..Len(c) : c[e] = "D")
FirstSpanEnd(c) ==
    CHOOSE e \in (FirstSpanStart(c)+1)..Len(c) :
        /\ c[e] = "D"
        /\ \A t \in (FirstSpanStart(c)+1)..(e-1) : c[t] # "D"
BeforeSpan(c) == SubSeq(c, 1, FirstSpanStart(c) - 1)
AfterSpan(c) == SubSeq(c, FirstSpanEnd(c) + 1, Len(c))
CountD(c) == Cardinality({k \in 1..Len(c) : c[k] = "D"})

RECURSIVE Rewritten(_)
Rewritten(c) ==
    IF ~ HasPattern(c) THEN c
    ELSE BeforeSpan(c) \o NEW_HEADER \o Rewritten(AfterSpan(c))

(* C1 as stated: for a processed file whose content (as read) contains the *)
(* pattern, the content written back is exactly NEW_HEADER followed by the *)
(* original content after the matched span; without the pattern the        *)
(* content written back is the content unchanged.                          *)
C1_AsClaimed ==
    [][\A f \in Paths : ProcessStepOf(f) =>
          LET c == ReadText(fs[f])
          IN IF HasPattern(c) THEN fs'[f] = NEW_HEADER \o AfterSpan(c)
                              ELSE fs'[f] = c]_vars

(* C1 amended: for a processed file whose content (as read) contains the   *)
(* pattern, the content written back is the original content before the    *)
(* first matched span, then NEW_HEADER, then the original content after    *)
(* the span with every further occurrence of the pattern in it replaced    *)
(* the same way; without the pattern it is the content as read.            *)
C1_Rewrite ==
    [][\A f \in Paths : ProcessStepOf(f) =>
          fs'[f] = Rewritten(ReadText(fs[f]))]_vars

C1_Witness ==
    \E f \in processed :
        LET c == ReadText(orig[f])
        IN /\ run = 1
           /\ HasPattern(c)
           /\ BeforeSpan(c) # <<>>
           /\ fs[f] = BeforeSpan(c) \o NEW_HEADER \o AfterSpan(c)

(* C8 as stated: the files read and rewritten are exactly the HTML files   *)
(* of the directory other than index.html and sesame-green-beans.html, and *)
(* neither of these two is ever written.                                   *)
C8_AsClaimed ==
    /\ pc = "done" =>
          processed = Glob(fs) \ {PathOf(IndexName), PathOf(SesameName)}
    /\ written \cap {PathOf(IndexName), PathOf(SesameName)} = {}

(* C10: on a file that had at most one occurrence of the old div opening   *)
(* tag before the first run, a run leaves content without the pattern, and *)
(* every later run writes back exactly the content it found.               *)
C10_Idempotent ==
    [][\A f \in Paths : (ProcessStepOf(f) /\ CountD(orig[f]) <= 1) =>
          /\ ~ HasPattern(ReadText(fs'[f]))
          /\ run >= 2 => fs'[f] = fs[f]]_vars

C10_Witness ==
    /\ run = 2
    /\ pc = "done"
    /\ \E f \in processed :
          /\ CountD(orig[f]) = 1
          /\ HasPattern(ReadText(orig[f]))
          /\ fs[f] # orig[f]

(***************************************************************************)
(*          Properties: extract_tags_from_recipe_page and line 78          *)
(***************************************************************************)

RECURSIVE Offset(_, _)
Offset(T, i) == IF i = 1 THEN 0 ELSE Offset(T, i - 1) + Len(T[i - 1]) + 1

NormalizedChar(ch) == IF ch = " " THEN "-" ELSE IF ch = "A" THEN "a" ELSE ch

(* C2: the computed data-tags string is the tags in their order, each      *)
(* lower-cased with every space replaced by a hyphen, joined by exactly    *)
(* one space.                                                              *)
C2_Normalized ==
    (epc = "done" /\ ~ recipe_tags.isNone) =>
        LET T == recipe_tags.tags
            out == formatted_data_tags
        IN /\ Len(out) = IF T = <<>> THEN 0
                         ELSE Offset(T, Len(T)) + Len(T[Len(T)])
           /\ \A i \in 1..Len(T) : \A k \in 1..Len(T[i]) :
                 out[Offset(T, i) + k] = NormalizedChar(T[i][k])
           /\ \A i \in 2..Len(T) : out[Offset(T, i)] = " "

C2_Witness ==
    /\ epc = "done"
    /\ recipe_tags.tags = << <<"A", " ", "b">>, <<"b">> >>
    /\ formatted_data_tags = <<"a", "-", "b", " ", "b">>

IsElement(node) == node.kind # "string"
MinOf(S) == CHOOSE m \in S : \A n \in S : m <= n

(* C9 as stated: the marker is the comment node containing "Tags Section", *)
(* the tags section is the element immediately after the comment's parent, *)
(* and if that sibling is absent or not the container the result is null.  *)
C9_AsClaimed ==
    (epc # "call" /\ page.readable) =>
        LET nodes == page.nodes
            ms == {i \in 1..Len(nodes) : nodes[i].marker = "comment"}
        IN IF ms = {} THEN recipe_tags = None
           ELSE LET i == MinOf(ms)
                IN IF /\ IsElement(nodes[i]) /\ i < Len(nodes)
                      /\ nodes[i + 1].kind = "div"
                   THEN recipe_tags = Some(CollectTags(nodes[i + 1].spans))
                   ELSE recipe_tags = None

(* C9 amended: a marker is any string node, comment or plain text, that    *)
(* contains "Tags Section"; the tags section is the first div among the    *)
(* later siblings of the parent of the first marker, in document order,    *)
(* whose parent has a later sibling div; the result is null exactly when   *)
(* no marker's parent has a later sibling div.                             *)
C9_Located ==
    (epc # "call" /\ page.readable) =>
        LET nodes == page.nodes
            laterDivs(i) == {j \in (i+1)..Len(nodes) : nodes[j].kind = "div"}
            cands == {i \in 1..Len(nodes) :
                        /\ IsElement(nodes[i]) /\ nodes[i].marker # "none"
                        /\ laterDivs(i) # {}}
        IN IF cands = {} THEN recipe_tags = None
           ELSE recipe_tags =
                  Some(CollectTags(nodes[MinOf(laterDivs(MinOf(cands)))].spans))

C9_Witness ==
    /\ epc = "done"
    /\ Len(page.nodes) = 3
    /\ page.nodes[1].kind = "p" /\ page.nodes[1].marker = "text"
    /\ page.nodes[2].kind = "p" /\ page.nodes[2].marker = "comment"
    /\ page.nodes[3].kind = "div"
    /\ recipe_tags = Some(<< <<"A">> >>)

(***************************************************************************)
(*                     Properties: Tag Auditor main pass                   *)
(***************************************************************************)

Entries == report.entries

(* the page has a tags section extract_tags_from_recipe_page can detect *)
HasTagsSection(p) ==
    /\ p.readable
    /\ \E i, j \in 1..Len(p.nodes) :
          /\ i < j /\ IsElement(p.nodes[i]) /\ p.nodes[i].marker # "none"
          /\ p.nodes[j].kind = "div"

(* the index has an anchor for the recipe from which a data-tags value can *)
(* be read                                                                 *)
HasIndexEntry(index, recipe_name) ==
    \E a \in 1..Len(index) : \E h, d \in 1..Len(index[a]) :
        /\ h < d
        /\ index[a][h] = [name |-> "href", value |-> recipe_name]
        /\ index[a][d].name = "data-tags"

AnalyzeStep == apc = "loop" /\ idx' = idx + 1

(* C3: a recipe whose extraction did not yield the error result is MATCH   *)
(* exactly when the computed string equals, character for character, the   *)
(* data-tags value found in the index, and MISMATCH otherwise.             *)
C3_MatchIffEqual ==
    \A k \in 1..Len(Entries) :
        LET e == Entries[k]
        IN e.status # "ERROR" =>
             /\ e.status \in {"MATCH", "MISMATCH"}
             /\ e.status = "MATCH" <=>
                   (~ e.current.isNone /\ e.current.value = e.correct)

C3_Witness ==
    \E k \in 1..Len(Entries) :
        /\ Entries[k].status = "MISMATCH"
        /\ Entries[k].correct = <<"a", "-", "b", " ", "b">>
        /\ Entries[k].current = TagsValue(<<"b", " ", "a", "-", "b">>)

(* C4: a recipe page without detectable tags section is recorded as ERROR, *)
(* the error count grows by exactly one and the match and mismatch counts  *)
(* stay as they are.                                                       *)
C4_NoSectionIsError ==
    [][(AnalyzeStep /\ cwd[recipe_files[idx + 1]].readable
                    /\ ~ HasTagsSection(cwd[recipe_files[idx + 1]])) =>
          /\ Len(report'.entries) = Len(report.entries) + 1
          /\ report'.entries[Len(report'.entries)].status = "ERROR"
          /\ report'.entries[Len(report'.entries)].recipe =
                RemoveHtml(recipe_files[idx + 1])
          /\ errors' = errors + 1
          /\ matches' = matches
          /\ mismatches' = mismatches]_vars

C4_Witness ==
    \E k \in 1..Len(Entries) :
        /\ Entries[k].status = "ERROR"
        /\ cwd[recipe_files[k]].readable
        /\ Len(cwd[recipe_files[k]].nodes) = 2
        /\ errors >= 1

(* C5: the counts add up to the number of files gone through after every   *)
(* iteration, and the summary's counts add up to its total, the number of  *)
(* HTML files of the working directory other than index.html.              *)
C5_CountsAddUp ==
    /\ matches + mismatches + errors = idx
    /\ apc = "done" =>
          LET sm == report.summary
          IN /\ sm.written
             /\ sm.matches + sm.mismatches + sm.errors = sm.total
             /\ sm.total = Cardinality({f \in DOMAIN cwd :
                                           f[Len(f)] = ".html" /\ f # IndexHtml})

C5_Witness ==
    /\ apc = "done"
    /\ report.summary.total = 2
    /\ report.summary.matches = 1
    /\ report.summary.errors = 1

(* every recipe file has exactly one report entry, in enumeration order *)
ReportCoversAll ==
    /\ Len(Entries) = Len(recipe_files)
    /\ \A k \in 1..Len(recipe_files) :
          /\ Entries[k].recipe = RemoveHtml(recipe_files[k])
          /\ Entries[k].status \in {"MATCH", "MISMATCH", "ERROR"}
          /\ ~ cwd[recipe_files[k]].readable => Entries[k].status = "ERROR"

C7_NoIndexEntryIsMismatch ==
    \A k \in 1..Len(Entries) :
        (/\ HasTagsSection(cwd[recipe_files[k]])
         /\ ~ HasIndexEntry(index_content, RemoveHtml(recipe_files[k])))
        => Entries[k].status = "MISMATCH"

C7_Witness ==
    \E k \in 1..Len(Entries) :
        /\ Entries[k].status = "MISMATCH"
        /\ Entries[k].tags = <<>>
        /\ Entries[k].correct = <<>>
        /\ Entries[k].current.isNone
        /\ HasTagsSection(cwd[recipe_files[k]])

====
